---- MODULE Spec2Model ----
(***************************************************************************)
(* The evaluation loop of bioagent/chemistry_tools/evaluator.py:           *)
(* MoleculeSMILESEvaluator.evaluate and MoleculeCaptionEvaluator.evaluate, *)
(* one call of evaluate per behaviour.  The interpreter's position in the  *)
(* call is pc; one action per pass of the loop over the pairs.             *)
(*                                                                         *)
(* Python values are represented as follows.                               *)
(*   - str: a sequence of one-character strings (SMILES) or of SELFIES     *)
(*     symbols (the inputs of the SMILES evaluator); captions are opaque   *)
(*     TLA+ strings, the caption evaluator never looks inside them.        *)
(*   - None / a value: the sequences <<>> and <<v>> (None, Some(v)).       *)
(*   - int and bool scores: Num(n); True is Num(1) (bool is a subclass of  *)
(*     int in Python, True == 1).                                          *)
(*   - a float computed by a library (nltk, rdkit): the record naming the  *)
(*     library function and the arguments it received, role by role.       *)
(***************************************************************************)
EXTENDS Integers, Sequences, FiniteSets, TLC

VARIABLES evaluator, predictions, references, metrics_arg,
          metrics, results, pc, k, pred, gt, calls, returned,
          fn_or_urls, local_fns, fps, tempfiles, fpc, yielded,
          body_exc, closing, propagated

\* The state of a call of evaluate.
evars == <<evaluator, predictions, references, metrics_arg,
           metrics, results, pc, k, pred, gt, calls, returned>>

\* The state of a use of with_local_files (bioagent/data_tools.py).
fvars == <<fn_or_urls, local_fns, fps, tempfiles, fpc, yielded,
           body_exc, closing, propagated>>

vars == <<evars, fvars>>

\* Longest predictions / references list of a call.
MaxPairs == 2

\* Longest metrics list passed to a call.
MaxMetrics == 2

\* Longest fn_or_urls list passed to with_local_files.
MaxFiles == 3

None == <<>>

Some(v) == <<v>>

Num(n) == [kind |-> "int", val |-> n]

Range(s) == {s[i] : i \in 1..Len(s)}

SeqsUpTo(S, n) == UNION {[1..m -> S] : m \in 0..n}

Min(a, b) == IF a <= b THEN a ELSE b

Reverse(s) == [i \in 1..Len(s) |-> s[Len(s) + 1 - i]]

(***************************************************************************)
(* The libraries (selfies, rdkit, Levenshtein, nltk, rouge_score) as the   *)
(* source calls them.                                                      *)
(***************************************************************************)

\* SELFIES symbols the decoder knows, with the atom each one derives.
SelfiesAtom(symbol) ==
    CASE symbol = "[C]" -> "C"
      [] symbol = "[O]" -> "O"
      [] OTHER -> "?"

\* sf.decoder: the SMILES of a symbol sequence; an unknown symbol raises
\* DecoderError.  The empty string has no symbol and decodes to "".
sf_decoder(selfies) ==
    IF \E i \in 1..Len(selfies) : SelfiesAtom(selfies[i]) = "?"
    THEN [raised |-> TRUE, smiles |-> <<>>]
    ELSE [raised |-> FALSE,
          smiles |-> [i \in 1..Len(selfies) |-> SelfiesAtom(selfies[i])]]

Atoms == {"C", "O"}

AtomRank(a) == IF a = "C" THEN 1 ELSE 2

\* Chem.MolFromSmiles: None for a string that is no SMILES, a molecule (here
\* the chain of its atoms) otherwise.  The empty string parses to the empty
\* molecule, which is not None.
MolFromSmiles(smiles) ==
    IF \A i \in 1..Len(smiles) : smiles[i] \in Atoms
    THEN Some([atoms |-> smiles])
    ELSE None

RECURSIVE LexLess(_, _)
LexLess(a, b) ==
    IF Len(b) = 0 THEN FALSE
    ELSE IF Len(a) = 0 THEN TRUE
    ELSE IF AtomRank(Head(a)) # AtomRank(Head(b))
         THEN AtomRank(Head(a)) < AtomRank(Head(b))
    ELSE LexLess(Tail(a), Tail(b))

\* Chem.MolToSmiles(molecule, isomericSmiles=False, canonical=True): one
\* string per molecule, whichever end of the chain the input started from.
MolToSmiles(molecule) ==
    IF LexLess(Reverse(molecule.atoms), molecule.atoms)
    THEN Reverse(molecule.atoms)
    ELSE molecule.atoms

\* Chem.MolToInchi: an identifier of the molecule, equal for equal molecules.
MolToInchi(molecule) == <<"InChI">> \o MolToSmiles(molecule)

\* Levenshtein.distance
RECURSIVE lev(_, _)
lev(a, b) ==
    IF Len(a) = 0 THEN Len(b)
    ELSE IF Len(b) = 0 THEN Len(a)
    ELSE IF Head(a) = Head(b) THEN lev(Tail(a), Tail(b))
    ELSE 1 + Min(lev(Tail(a), b), Min(lev(a, Tail(b)), lev(Tail(a), Tail(b))))

\* nltk sentence_bleu(references, hypothesis, weights): references is a list of
\* references.  With no reference at all, nltk raises (modified_precision
\* looks up the hypothesis' n-grams in the empty table of reference counts:
\* KeyError; closest_ref_length takes min() of nothing: ValueError).
sentence_bleu(refs, hypothesis, weights) ==
    IF Len(refs) = 0
    THEN [raised |-> TRUE, value |-> Num(0)]
    ELSE [raised |-> FALSE,
          value |-> [kind |-> "float", fn |-> "sentence_bleu",
                     references |-> refs, hypothesis |-> hypothesis,
                     weights |-> weights]]

\* A Python str handed to a parameter that expects a list: iterating it gives
\* its one-character substrings, each one an item of the list.
IterStr(s) == [i \in 1..Len(s) |-> <<s[i]>>]

DataStructs_Tanimoto(fp1, fp2) ==
    [kind |-> "float", fn |-> "TanimotoSimilarity", fps |-> {fp1, fp2}]

GenFingerprint(scheme, mol) == [scheme |-> scheme, mol |-> mol]

\* rouge_scorer.RougeScorer.score(target, prediction) tokenizes its target with
\* target.lower(): a str is scored, a list raises AttributeError.
RougeScorer_score(rouge_type, target_is_str, target, prediction) ==
    IF target_is_str
    THEN [raised |-> FALSE,
          value |-> [kind |-> "score", fn |-> rouge_type,
                     target |-> target, prediction |-> prediction]]
    ELSE [raised |-> TRUE, value |-> Num(0)]

\* nltk meteor_score(references, hypothesis): builds of nltk from 3.6.6 on raise
\* TypeError for a hypothesis that is a str and not a list of tokens; earlier
\* ones score it.  Both outcomes are kept.
meteor_score(refs, hypothesis) ==
    {[raised |-> TRUE, value |-> Num(0)],
     [raised |-> FALSE,
      value |-> [kind |-> "float", fn |-> "meteor_score",
                 references |-> refs, hypothesis |-> hypothesis]]}

(***************************************************************************)
(* evaluator.py                                                            *)
(***************************************************************************)

SMILES == "MoleculeSMILESEvaluator"

CAPTION == "MoleculeCaptionEvaluator"

exact_match(ot_smi, gt_smi) ==
    LET m_out == MolFromSmiles(ot_smi)
        m_gt == MolFromSmiles(gt_smi)
    IN  IF /\ m_out # None
           /\ m_gt # None
           /\ MolToInchi(m_out[1]) = MolToInchi(m_gt[1])
        THEN 1
        ELSE 0

maccs_similarity(ot_m, gt_m) ==
    DataStructs_Tanimoto(GenFingerprint("MACCSkeys", gt_m),
                         GenFingerprint("MACCSkeys", ot_m))

morgan_similarity(ot_m, gt_m) ==
    DataStructs_Tanimoto(GenFingerprint("Morgan radius 2", gt_m),
                         GenFingerprint("Morgan radius 2", ot_m))

rdk_similarity(ot_m, gt_m) ==
    DataStructs_Tanimoto(GenFingerprint("RDKFingerprint", gt_m),
                         GenFingerprint("RDKFingerprint", ot_m))

\* The validity lambda with its test inverted (smiles is None).
validity_Inverted(smiles) == IF smiles = None THEN 1 ELSE 0

\* "validity": lambda smiles: smiles is not None
validity(smiles) == IF smiles # None THEN 1 ELSE 0

\* The keys of MoleculeSMILESEvaluator._metric_functions.
SmilesMetricFunctions ==
    {"levenshtein", "exact_match", "bleu", "validity",
     "maccs_sims", "morgan_sims", "rdk_sims"}

\* The keys of MoleculeCaptionEvaluator._metric_functions.
CaptionMetricFunctions ==
    {"bleu-2", "bleu-4", "rouge-1", "rouge-2", "rouge-l", "meteor"}

SmilesDefaultMetrics ==
    <<"levenshtein", "exact_match", "bleu", "validity",
      "maccs_sims", "morgan_sims", "rdk_sims">>

CaptionDefaultMetrics ==
    <<"bleu-2", "bleu-4", "meteor", "rouge-1", "rouge-2", "rouge-l">>

sf_encode(selfies) ==
    LET d == sf_decoder(selfies)
    IN  IF d.raised THEN None ELSE Some(d.smiles)

convert_to_canonical_smiles(smiles) ==
    IF smiles = None THEN None
    ELSE LET molecule == MolFromSmiles(smiles[1])
         IN  IF molecule # None
             THEN Some(MolToSmiles(molecule[1]))
             ELSE None

\* build_evaluate_tuple of either evaluator: <<pred, gt>>.
build_evaluate_tuple(e, p, g) ==
    IF e = SMILES
    THEN <<convert_to_canonical_smiles(sf_encode(p)),
           convert_to_canonical_smiles(sf_encode(g))>>
    ELSE <<Some(p), Some(g)>>

\* The guard testing the prediction alone.
NullGuard_PredOnly(p, g) == p = None

\* The guard of the SMILES evaluator's inner loop.
NullGuard(p, g) == p = None \/ g = None

\* A zip that yields nothing for lists of different lengths.
ZipLen_Strict(ps, rs) == IF Len(ps) = Len(rs) THEN Len(ps) ELSE 0

\* How many pairs zip(predictions, references) yields.
ZipLen(ps, rs) == Min(Len(ps), Len(rs))

DefaultMetrics(e) ==
    IF e = SMILES THEN SmilesDefaultMetrics ELSE CaptionDefaultMetrics

\* s without the later occurrences of its items.
RECURSIVE Dedup(_)
Dedup(s) ==
    IF Len(s) = 0 THEN <<>>
    ELSE LET front == Dedup(SubSeq(s, 1, Len(s) - 1))
         IN  IF s[Len(s)] \in Range(front) THEN front
             ELSE Append(front, s[Len(s)])

\* The metrics list with repeated names dropped.
EffectiveMetrics_Dedup(arg, e) ==
    IF arg = None THEN DefaultMetrics(e) ELSE Dedup(arg[1])

\* if metrics is None: metrics = [the evaluator's default list]
EffectiveMetrics(arg, e) ==
    IF arg = None THEN DefaultMetrics(e) ELSE arg[1]

\* results = {metric: [] for metric in metrics}
NewResults(ms) == [m \in Range(ms) |-> <<>>]

\* results[metric] = [score] in place of the append.
AppendScore_Overwrite(res, metric, score) ==
    [res EXCEPT ![metric] = <<score>>]

\* results[metric].insert(0, score) in place of the append.
AppendScore_Prepend(res, metric, score) ==
    [res EXCEPT ![metric] = <<score>> \o @]

\* results[metric].append(score)
AppendScore(res, metric, score) ==
    [res EXCEPT ![metric] = Append(@, score)]

Returned(value) == [raised |-> FALSE, called |-> TRUE, value |-> value]

NotCalled(value) == [raised |-> FALSE, called |-> FALSE, value |-> value]

Raised(called) == [raised |-> TRUE, called |-> called, value |-> Num(0)]

FromLibrary(o) ==
    IF o.raised THEN Raised(TRUE) ELSE Returned(o.value)

\* One pass of the SMILES evaluator's inner loop body for metric, with the
\* normalized pair <<p, g>>: what is appended, or that an exception leaves.
\* Past the guard and the validity branch, the metric is looked up (KeyError
\* for a name that is no key) and called on both strings; every function but
\* the validity lambda raises TypeError on None.
SmilesScore(metric, p, g) ==
    IF NullGuard(p, g) THEN NotCalled(Num(0))
    ELSE IF metric = "validity" THEN Returned(Num(validity(p)))
    ELSE IF metric \notin SmilesMetricFunctions THEN Raised(FALSE)
    ELSE IF p = None \/ g = None THEN Raised(TRUE)
    ELSE IF metric \in {"maccs_sims", "morgan_sims", "rdk_sims"}
    THEN LET ot_m == MolFromSmiles(p[1])
             gt_m == MolFromSmiles(g[1])
         IN  CASE metric = "maccs_sims" -> Returned(maccs_similarity(ot_m, gt_m))
               [] metric = "morgan_sims" -> Returned(morgan_similarity(ot_m, gt_m))
               [] OTHER -> Returned(rdk_similarity(ot_m, gt_m))
    ELSE CASE metric = "levenshtein" -> Returned(Num(lev(p[1], g[1])))
           [] metric = "exact_match" -> Returned(Num(exact_match(p[1], g[1])))
           [] OTHER ->
                FromLibrary(sentence_bleu(IterStr(p[1]), g[1],
                                          "(0.25, 0.25, 0.25, 0.25)"))

\* self._metric_functions[metric]([gt], pred) of the caption evaluator: the
\* outcomes of the lookup and of the call.
CaptionCall(metric, p, g) ==
    IF metric \notin CaptionMetricFunctions THEN {Raised(FALSE)}
    ELSE CASE metric = "bleu-2" ->
                {FromLibrary(sentence_bleu(<<g[1]>>, p[1], "(0.5, 0.5)"))}
           [] metric = "bleu-4" ->
                {FromLibrary(sentence_bleu(<<g[1]>>, p[1],
                                           "(0.25, 0.25, 0.25, 0.25)"))}
           [] metric = "meteor" ->
                {FromLibrary(o) : o \in meteor_score(<<g[1]>>, p[1])}
           [] OTHER ->
                {FromLibrary(RougeScorer_score(metric, FALSE, <<g[1]>>, p[1]))}

\* The caption evaluator's pass with the SMILES evaluator's policy: an
\* exception of the call is caught and 0 is appended.
CaptionScore_Caught(metric, p, g) ==
    {IF o.raised THEN Returned(Num(0)) ELSE o : o \in CaptionCall(metric, p, g)}

\* One pass of the caption evaluator's inner loop body: nothing is caught, the
\* call's outcome is the pass's outcome.
CaptionScore(metric, p, g) == CaptionCall(metric, p, g)

Score(e, metric, p, g) ==
    IF e = SMILES THEN {SmilesScore(metric, p, g)} ELSE CaptionScore(metric, p, g)

(***************************************************************************)
(* The arguments of a call.                                                *)
(***************************************************************************)

\* SELFIES strings: the empty string, a molecule written from the other end
\* than its canonical form, and a string with a symbol the decoder rejects.
SelfiesInputs == {<<>>, <<"[O]", "[C]">>, <<"[Xx]">>}

CaptionInputs == {"an alcohol", "an ether"}

Inputs(e) == IF e = SMILES THEN SelfiesInputs ELSE CaptionInputs

\* The names a caller passes in an explicit metrics list: one name per branch
\* of the SMILES evaluator's dispatch and every name of the caption
\* evaluator's, and one name neither evaluator knows.  The other names of the
\* SMILES evaluator are requested through the default list.
MetricNames(e) ==
    IF e = SMILES
    THEN {"validity", "levenshtein", "bleu", "maccs_sims", "fcd"}
    ELSE CaptionMetricFunctions \cup {"fcd"}

\* The inner loop, for metric in metrics, from metrics[i] on: the results and
\* the calls made when it ends, or when an exception leaves it.
RECURSIVE InnerLoop(_, _, _, _, _, _, _, _)
InnerLoop(e, ms, i, n, p, g, res, cs) ==
    IF i > Len(ms)
    THEN {[raised |-> FALSE, results |-> res, calls |-> cs]}
    ELSE UNION {
           LET cs2 == IF o.called THEN Append(cs, <<n, ms[i]>>) ELSE cs
           IN  IF o.raised
               THEN {[raised |-> TRUE, results |-> res, calls |-> cs2]}
               ELSE InnerLoop(e, ms, i + 1, n, p, g,
                              AppendScore(res, ms[i], o.value), cs2)
           : o \in Score(e, ms[i], p, g)}

(***************************************************************************)
(* bioagent/data_tools.py: with_local_files.                               *)
(*                                                                         *)
(* A str that names a file or a URL is the record of its scheme prefix,    *)
(* the text after it and its extension (what startswith and                *)
(* os.path.splitext look at); n numbers the names tempfile generates.  A   *)
(* PIL image is the record Image.  A file object is its index in           *)
(* tempfiles, the table of the NamedTemporaryFile objects created so far.  *)
(***************************************************************************)
Str(scheme, stem, n, ext) ==
    [type |-> "str", scheme |-> scheme, stem |-> stem, n |-> n, ext |-> ext]

Image == [type |-> "Image", scheme |-> "", stem |-> "", n |-> 0, ext |-> ""]

\* isinstance(fn_or_url, Image.Image)
IsImage(fn_or_url) == fn_or_url.type = "Image"

\* fn_or_url.startswith("http://") or fn_or_url.startswith("https://")
IsHttp(fn_or_url) == fn_or_url.scheme = "http://" \/ fn_or_url.scheme = "https://"

\* os.path.splitext(fn_or_url)[-1]
splitext_ext(fn_or_url) == fn_or_url.ext

\* tempfile.NamedTemporaryFile(suffix=suffix, mode="wb"): a new open file
\* under a name no earlier file has; made is the table of the files so far.
NamedTemporaryFile(made, suffix) ==
    [name |-> Str("", "/tmp/tmp", Len(made) + 1, suffix), closes |-> 0]

\* fp.close()
Close(made, fp) == [made EXCEPT ![fp].closes = @ + 1]

\* Where control goes when the body of the with statement is left, normally
\* (exc = None) or by the exception exc thrown in at the yield:
\*     try: yield local_fns
\*     finally: ...
AfterYield_NoFinally(exc) == IF exc = None THEN "finally" ELSE "exited"

AfterYield(exc) == "finally"

\* The values passed in fn_or_urls.
FileInputs ==
    { Image,
      Str("http://", "host/mol", 0, ".sdf"),
      Str("https://", "host/mol", 0, ""),
      Str("", "/data/mol", 0, ".png"),
      Str("ftp://", "host/mol", 0, ".sdf") }

\* The exceptions the body of the with statement raises.
BodyExceptions == {"ValueError"}

\* with_local_files is not in use.
NoLocalFiles ==
    /\ fn_or_urls = <<>>
    /\ local_fns = <<>>
    /\ fps = <<>>
    /\ tempfiles = <<>>
    /\ fpc = "idle"
    /\ yielded = None
    /\ body_exc = None
    /\ closing = 0
    /\ propagated = None

Init ==
    /\ evaluator \in {SMILES, CAPTION}
    /\ predictions \in SeqsUpTo(Inputs(evaluator), MaxPairs)
    /\ references \in SeqsUpTo(Inputs(evaluator), MaxPairs)
    /\ metrics_arg \in {None} \cup
                       {Some(ms) : ms \in SeqsUpTo(MetricNames(evaluator), MaxMetrics)}
    /\ metrics = <<>>
    /\ results = <<>>
    /\ pc = "call"
    /\ k = 0
    /\ pred = None
    /\ gt = None
    /\ calls = <<>>
    /\ returned = None
    /\ NoLocalFiles

\* if metrics is None: metrics = [...]
\* results = {metric: [] for metric in metrics}
Enter ==
    /\ pc = "call"
    /\ metrics' = EffectiveMetrics(metrics_arg, evaluator)
    /\ results' = NewResults(metrics')
    /\ pc' = "zip"
    /\ UNCHANGED <<evaluator, predictions, references, metrics_arg,
                   k, pred, gt, calls, returned>>
    /\ UNCHANGED fvars

\* One pass of the body of for pred, gt in zip(predictions, references):
\* the pair is normalized and every metric of metrics is scored in turn.  An
\* exception leaves the call: the caller gets no table.
ScorePair ==
    /\ pc = "zip"
    /\ k < ZipLen(predictions, references)
    /\ k' = k + 1
    /\ LET t == build_evaluate_tuple(evaluator, predictions[k + 1], references[k + 1])
       IN  /\ pred' = t[1]
           /\ gt' = t[2]
           /\ \E o \in InnerLoop(evaluator, metrics, 1, k + 1, t[1], t[2], results, calls) :
                 /\ results' = o.results
                 /\ calls' = o.calls
                 /\ pc' = IF o.raised THEN "raised" ELSE "zip"
    /\ UNCHANGED <<evaluator, predictions, references, metrics_arg,
                   metrics, returned>>
    /\ UNCHANGED fvars

\* return results, once zip is exhausted.  (The verbose block before it only
\* prints.)
Return ==
    /\ pc = "zip"
    /\ k = ZipLen(predictions, references)
    /\ pc' = "done"
    /\ returned' = Some(results)
    /\ UNCHANGED <<evaluator, predictions, references, metrics_arg,
                   metrics, results, k, pred, gt, calls>>
    /\ UNCHANGED fvars

Next == Enter \/ ScorePair \/ Return

Spec == Init /\ [][Next]_vars

\* evaluate is not in use.
NoEvaluate ==
    /\ evaluator = SMILES
    /\ predictions = <<>>
    /\ references = <<>>
    /\ metrics_arg = None
    /\ metrics = <<>>
    /\ results = <<>>
    /\ pc = "idle"
    /\ k = 0
    /\ pred = None
    /\ gt = None
    /\ calls = <<>>
    /\ returned = None

\* with with_local_files(fn_or_urls) as ...: the generator has started.
\*     local_fns = []
\*     fps = []
InitFiles ==
    /\ NoEvaluate
    /\ fn_or_urls \in SeqsUpTo(FileInputs, MaxFiles)
    /\ local_fns = <<>>
    /\ fps = <<>>
    /\ tempfiles = <<>>
    /\ fpc = "setup"
    /\ yielded = None
    /\ body_exc = None
    /\ closing = 0
    /\ propagated = None

\* The item the for loop of the setup is at: every pass appends one path.
fn_or_url == fn_or_urls[Len(local_fns) + 1]

InSetup == fpc = "setup" /\ Len(local_fns) < Len(fn_or_urls)

\* if isinstance(fn_or_url, Image.Image): a temporary .png file.
SetupImage ==
    /\ InSetup
    /\ IsImage(fn_or_url)
    /\ LET fp == NamedTemporaryFile(tempfiles, ".png")
       IN  /\ tempfiles' = Append(tempfiles, fp)
           /\ fps' = Append(fps, Len(tempfiles'))
           /\ local_fns' = Append(local_fns, fp.name)
    /\ UNCHANGED <<fn_or_urls, fpc, yielded, body_exc, closing, propagated>>
    /\ UNCHANGED evars

\* elif fn_or_url.startswith("http://") or ...("https://"): the download.
\* requests.get raises before the file is made, shutil.copyfileobj after it
\* and before fps.append(fp); either exception leaves the generator from the
\* setup, outside the try.
SetupUrl ==
    /\ InSetup
    /\ ~IsImage(fn_or_url)
    /\ IsHttp(fn_or_url)
    /\ LET fp == NamedTemporaryFile(tempfiles, splitext_ext(fn_or_url))
       IN  \E outcome \in {"ok", "get_raises", "copy_raises"} :
             CASE outcome = "ok" ->
                    /\ tempfiles' = Append(tempfiles, fp)
                    /\ fps' = Append(fps, Len(tempfiles'))
                    /\ local_fns' = Append(local_fns, fp.name)
                    /\ UNCHANGED <<fpc, propagated>>
               [] outcome = "get_raises" ->
                    /\ fpc' = "setup_raised"
                    /\ propagated' = Some("RequestException")
                    /\ UNCHANGED <<tempfiles, fps, local_fns>>
               [] outcome = "copy_raises" ->
                    /\ tempfiles' = Append(tempfiles, fp)
                    /\ fpc' = "setup_raised"
                    /\ propagated' = Some("OSError")
                    /\ UNCHANGED <<fps, local_fns>>
    /\ UNCHANGED <<fn_or_urls, yielded, body_exc, closing>>
    /\ UNCHANGED evars

\* else: local_fns.append(fn_or_url)
SetupPath ==
    /\ InSetup
    /\ ~IsImage(fn_or_url)
    /\ ~IsHttp(fn_or_url)
    /\ local_fns' = Append(local_fns, fn_or_url)
    /\ UNCHANGED <<fn_or_urls, fps, tempfiles, fpc, yielded, body_exc,
                   closing, propagated>>
    /\ UNCHANGED evars

\* yield local_fns, once the for loop is exhausted: the body starts.
Yield ==
    /\ fpc = "setup"
    /\ Len(local_fns) = Len(fn_or_urls)
    /\ yielded' = Some(local_fns)
    /\ fpc' = "body"
    /\ UNCHANGED <<fn_or_urls, local_fns, fps, tempfiles, body_exc, closing,
                   propagated>>
    /\ UNCHANGED evars

\* The body of the with statement ends normally: the generator is resumed.
BodyReturns ==
    /\ fpc = "body"
    /\ fpc' = AfterYield(None)
    /\ UNCHANGED <<fn_or_urls, local_fns, fps, tempfiles, yielded, body_exc,
                   closing, propagated>>
    /\ UNCHANGED evars

\* The body of the with statement raises: contextmanager throws the
\* exception into the generator at the yield.
BodyRaises ==
    /\ fpc = "body"
    /\ \E e \in BodyExceptions :
          /\ body_exc' = Some(e)
          /\ fpc' = AfterYield(Some(e))
          /\ propagated' = IF fpc' = "exited" THEN Some(e) ELSE None
    /\ UNCHANGED <<fn_or_urls, local_fns, fps, tempfiles, yielded, closing>>
    /\ UNCHANGED evars

\* One pass of for fp in fps: fp.close()
CloseNext ==
    /\ fpc = "finally"
    /\ closing < Len(fps)
    /\ tempfiles' = Close(tempfiles, fps[closing + 1])
    /\ closing' = closing + 1
    /\ UNCHANGED <<fn_or_urls, local_fns, fps, fpc, yielded, body_exc,
                   propagated>>
    /\ UNCHANGED evars

\* The finally block ends: the exception thrown in at the yield, if any,
\* goes on out of the generator and of the with statement.
Exit ==
    /\ fpc = "finally"
    /\ closing = Len(fps)
    /\ fpc' = "exited"
    /\ propagated' = body_exc
    /\ UNCHANGED <<fn_or_urls, local_fns, fps, tempfiles, yielded, body_exc,
                   closing>>
    /\ UNCHANGED evars

NextFiles ==
    \/ SetupImage
    \/ SetupUrl
    \/ SetupPath
    \/ Yield
    \/ BodyReturns
    \/ BodyRaises
    \/ CloseNext
    \/ Exit

SpecFiles == InitFiles /\ [][NextFiles]_vars

(***************************************************************************)
(* The properties.                                                         *)
(***************************************************************************)

\* The metrics list the caller asked for (the default list when it passed None).
Requested ==
    IF metrics_arg = None
    THEN IF evaluator = SMILES THEN SmilesDefaultMetrics ELSE CaptionDefaultMetrics
    ELSE metrics_arg[1]

\* How many times the caller named metric m.
Count(m) == Cardinality({i \in 1..Len(Requested) : Requested[i] = m})

\* min(len(predictions), len(references))
Pairs ==
    IF Len(predictions) <= Len(references) THEN Len(predictions)
    ELSE Len(references)

\* The normalized i-th input pair.
Norm(i) == build_evaluate_tuple(evaluator, predictions[i], references[i])

NormalizesToNull(i) == LET n == Norm(i) IN n[1] = None \/ n[2] = None

\* The pairs whose inner loop ran to its end.
Completed == IF pc = "raised" THEN k - 1 ELSE k

\* The entries pair i has under metric m, a metric named c times: entries
\* (i-1)c+1 .. ic of results[m], all equal to score.
AllEntries(m, c, i, score) ==
    /\ m \in DOMAIN results
    /\ Len(results[m]) >= i * c
    /\ \A n \in 1..c : results[m][(i - 1) * c + n] = score

\* The passes of the inner loop over the normalized pair n, for metric m, that
\* append a score (no exception leaves them).
Scoring(m, n) == {o \in Score(evaluator, m, n[1], n[2]) : ~o.raised}

C2_NullPairScoresZero ==
    evaluator = SMILES =>
        \A i \in 1..k :
            NormalizesToNull(i) =>
                /\ ~(pc = "raised" /\ i = k)
                /\ \A m \in Range(Requested) : AllEntries(m, Count(m), i, Num(0))
                /\ \A n \in 1..Len(calls) : calls[n][1] # i

C2_Witness ==
    /\ evaluator = SMILES
    /\ pc = "done"
    /\ k = 2
    /\ Norm(1)[1] # None /\ Norm(1)[2] = None
    /\ Norm(2)[1] = None /\ Norm(2)[2] # None
    /\ Range(metrics) = {"validity", "levenshtein"}
    /\ \A m \in Range(metrics) : results[m] = <<Num(0), Num(0)>>

\* C3 as stated: no exception leaves the SMILES evaluator's evaluate, here for
\* metrics lists that name only the evaluator's own metrics.
C3_NoExceptionEscapes ==
    (evaluator = SMILES /\ Range(Requested) \subseteq SmilesMetricFunctions)
        => pc # "raised"

\* C4: in the caption evaluator an exception of a metric function leaves the
\* call, which then does nothing more and hands the caller no table, not even
\* the scores appended so far; a table is returned only by a call in which
\* every call of a metric function returned, and it is the full table.
C4_CaptionAllOrNothing ==
    evaluator = CAPTION =>
        /\ pc = "raised" => (returned = None /\ ~ENABLED Next)
        /\ returned # None =>
              /\ pc = "done"
              /\ returned[1] = results
              /\ \A m \in Range(Requested) :
                    /\ m \in DOMAIN results
                    /\ Len(results[m]) = Pairs * Count(m)
        /\ pc = "done" =>
              \A i \in 1..Pairs : \A m \in Range(Requested) :
                  \E o \in CaptionCall(m, Some(predictions[i]), Some(references[i])) :
                      ~o.raised

C4_Witness ==
    /\ evaluator = CAPTION
    /\ pc = "raised"
    /\ k = 2
    /\ \E m \in DOMAIN results : Len(results[m]) > 0
    /\ returned = None

\* C5 as stated: in the returned table, the i-th entry of every metric's
\* sequence is the score of the i-th pair.
C5_IthEntryIsIthPair ==
    pc = "done" =>
        \A i \in 1..Pairs : \A m \in DOMAIN returned[1] :
            LET scoring == Scoring(m, Norm(i))
            IN  /\ Len(returned[1][m]) >= i
                /\ scoring # {}
                /\ returned[1][m][i] = (CHOOSE o \in scoring : TRUE).value

\* C5, amended: at every point of the call, a metric named c times holds, for
\* each pair scored so far and in input order, c entries, entries
\* (i-1)c+1 .. ic being the score of the i-th pair (the i-th entry for a metric
\* named once), and nothing else unless an exception is leaving the call; so
\* scores are appended in input order and never reordered, overwritten or
\* removed.
C5_EntriesInInputOrder ==
    pc # "call" =>
        /\ \A m \in Range(Requested) :
              /\ m \in DOMAIN results
              /\ Len(results[m]) >= Completed * Count(m)
              /\ pc # "raised" => Len(results[m]) = Completed * Count(m)
        /\ \A i \in 1..Completed :
              LET n == Norm(i)
              IN  \A m \in Range(Requested) :
                      LET scoring == Scoring(m, n)
                      IN  /\ scoring # {}
                          /\ AllEntries(m, Count(m), i,
                                        (CHOOSE o \in scoring : TRUE).value)

C5_Witness ==
    /\ pc = "done"
    /\ evaluator = SMILES
    /\ k = 2
    /\ metrics = <<"levenshtein">>
    /\ results["levenshtein"] = <<Num(2), Num(0)>>

\* The i-th reference is a molecule: it normalizes to a non-empty string.
ValidReference(i) == Norm(i)[2] # None /\ Len(Norm(i)[2][1]) > 0

\* C6 as stated: in the SMILES evaluator, a pair whose prediction is the empty
\* string and whose reference is valid gets 0 under every requested metric
\* and no exception leaves the call at that pair.
C6_EmptyPredictionScoresZero ==
    evaluator = SMILES =>
        \A i \in 1..k :
            (predictions[i] = <<>> /\ ValidReference(i)) =>
                /\ ~(pc = "raised" /\ i = k)
                /\ \A m \in Range(Requested) : AllEntries(m, Count(m), i, Num(0))

\* C7: in the SMILES evaluator, the validity score of a scored pair is 1 when
\* both the prediction and the reference normalize to a string, and 0 when
\* either side normalizes to None.
C7_ValidityIsBothNormalized ==
    (evaluator = SMILES /\ "validity" \in Range(Requested)) =>
        \A i \in 1..Completed :
            AllEntries("validity", Count("validity"), i,
                       IF NormalizesToNull(i) THEN Num(0) ELSE Num(1))

C7_Witness ==
    /\ evaluator = SMILES
    /\ pc = "done"
    /\ k = 2
    /\ metrics = <<"validity">>
    /\ Norm(1)[1] # None /\ Norm(1)[2] # None
    /\ Norm(2)[1] # None /\ Norm(2)[2] = None
    /\ results["validity"] = <<Num(1), Num(0)>>

\* C8 as stated: in the SMILES evaluator, the bleu score of a pair with both
\* sides normalized is sentence_bleu with the normalized reference as the one
\* reference of the references list and the normalized prediction as the
\* hypothesis.
C8_BleuReferenceAndHypothesis ==
    (evaluator = SMILES /\ "bleu" \in Range(Requested)) =>
        \A i \in 1..Completed :
            ~NormalizesToNull(i) =>
                AllEntries("bleu", Count("bleu"), i,
                           sentence_bleu(<<Norm(i)[2][1]>>, Norm(i)[1][1],
                                         "(0.25, 0.25, 0.25, 0.25)").value)

\* C9 as stated: for predictions and references of different lengths, every
\* metric's sequence in the returned table has length
\* min(len(predictions), len(references)).
C9_EveryMetricHasMinLength ==
    (pc = "done" /\ Len(predictions) # Len(references))
        => \A m \in DOMAIN returned[1] : Len(returned[1][m]) = Pairs

\* C9, amended: for predictions and references of different lengths, no more
\* than the first min(len(predictions), len(references)) pairs are scored, an
\* exception leaves the call only when a metric's pass over a scored pair
\* raises (never for the lengths), and in the returned table every requested
\* metric's sequence has length min(len(predictions), len(references)) times
\* the number of times the metric is named in metrics.
C9_ZipStopsAtShorterList ==
    Len(predictions) # Len(references) =>
        /\ k <= Pairs
        /\ pc = "raised" =>
              \E m \in Range(metrics) :
                  \E o \in Score(evaluator, m, pred, gt) : o.raised
        /\ pc = "done" =>
              /\ k = Pairs
              /\ \A m \in Range(Requested) :
                    /\ m \in DOMAIN returned[1]
                    /\ Len(returned[1][m]) = Pairs * Count(m)

C9_Witness ==
    /\ pc = "done"
    /\ Len(predictions) = 2
    /\ Len(references) = 1
    /\ Len(metrics) = 1
    /\ \A m \in DOMAIN results : Len(results[m]) = 1

\* C10: the keys of the returned table are exactly the distinct names of the
\* metrics list, and a metric named c times has c entries per pair, all of
\* them that pair's score: c times min(len(predictions), len(references))
\* entries in all.
C10_DuplicateMetricNames ==
    pc = "done" =>
        /\ DOMAIN returned[1] = Range(Requested)
        /\ \A m \in Range(Requested) :
              LET c == Count(m)
                  scores == returned[1][m]
              IN  /\ Len(scores) = c * Pairs
                  /\ \A i \in 1..Pairs : \A n \in 1..c :
                        scores[(i - 1) * c + n] = scores[(i - 1) * c + 1]

C10_Witness ==
    /\ pc = "done"
    /\ evaluator = CAPTION
    /\ metrics_arg = Some(<<"bleu-2", "bleu-2">>)
    /\ Pairs = 2
    /\ DOMAIN returned[1] = {"bleu-2"}
    /\ Len(returned[1]["bleu-2"]) = 4

\* The inputs of with_local_files that get a temporary file.
NeedsTemp(x) == IsImage(x) \/ IsHttp(x)

\* The number of inputs up to the i-th that get a temporary file.
TempRank(i) == Cardinality({j \in 1..i : NeedsTemp(fn_or_urls[j])})

====
